---- MODULE Spec2Model ----
(***************************************************************************)
(* A model of the runnable examples of orvull/omnisia that exercise shared *)
(* state: the atomics examples (atomic-docs, arc-doc), the Rc/Arc/Weak     *)
(* reference-count examples (rc-doc, arc-doc, weak-doc), the Pin<Box<T>>   *)
(* example (pin-doc), and the Arc<Mutex<T>>, Arc<RwLock<T>> and            *)
(* Arc::try_unwrap examples (arc-doc).                                     *)
(*                                                                         *)
(* Every example function builds its own locals (and function-local        *)
(* statics) and shares nothing with the others, so each one is explored    *)
(* from its own initial state: `prog` names the example being executed.    *)
(*                                                                         *)
(* Atomics are modelled with a view-based release/acquire memory: every    *)
(* location keeps the history of the values stored to it (its modification *)
(* order), every thread a view (for each location, the oldest store it may *)
(* still read), every store the view it publishes.  A load may return any  *)
(* store not older than the thread's view; an Acquire load of a Release    *)
(* store adopts the view published with it; a read-modify-write always     *)
(* reads the newest store.                                                 *)
(***************************************************************************)
EXTENDS Integers, Sequences, FiniteSets, TLC

VARIABLES
    prog,   \* the example function being executed
    pc,     \* pc[t]: the position of thread t (0 is the function's own thread)
    regs,   \* regs[t]: the local variables of thread t
    out,    \* what the example has printed so far
    hist,   \* hist[l]: the stores to atomic/heap location l, oldest first
    view,   \* view[t][l]: index in hist[l] of the oldest store t may still read
    frel,   \* frel[t]: the view of t at its last fence(Release)
    heap,   \* heap[a]: the state of the heap block at address a
    cnt,    \* cnt[n]: the reference counts of Rc/Arc allocation n
    handles,\* the Rc/Arc/Weak handles that are alive, and where each one lives
    lock,   \* the Mutex/RwLock of the example: who holds it
    data    \* the value the lock protects

memv == <<hist, view, frel>>
rcv == <<cnt, handles>>
lockv == <<lock, data>>
vars == <<prog, pc, regs, out, hist, view, frel, heap, cnt, handles, lock, data>>

(***************************************************************************)
(* Bounds.  The counter examples run 8 x 1000, 8 x 100000 and 4 x 250000   *)
(* increments; the model runs NThreads workers of NIters increments each.  *)
(***************************************************************************)
NThreads == 2
NIters == 2
\* The heap has NAddrs addresses; the allocator may return any unused one.
NAddrs == 2
\* The number of handles the any-sequence client creates in all.
MaxHandles == 4
\* The number of stack slots a Pin<Box<String>> handle may be moved to.
NSlots == 2

\* for i in 1..=4 (arc-doc example_mutation_with_mutex)
MutexThreads == 4
\* for i in 0..3 (arc-doc example_rwlock_readers_writers)
RwReaders == 3

main == 0

Addrs == 1 .. NAddrs

Max(a, b) == IF a >= b THEN a ELSE b

(***************************************************************************)
(* The memory.                                                             *)
(***************************************************************************)
Locs == {"counter", "hits", "sum", "READY", "VALUE", "PTR", "a", "b", "id", "x"}

BotView == [l \in Locs |-> 1]

JoinView(v1, v2) == [l \in Locs |-> Max(v1[l], v2[l])]

Msg(v, mv) == [val |-> v, mview |-> mv]

\* The initial value of every location: the argument of Atomic*::new (0 is the
\* null pointer), and for the fields a and b of the Payload, which no one has
\* written yet, a value that is not the one the producer writes.
InitHist ==
    [l \in Locs |->
        << Msg(CASE l \in {"counter", "hits", "sum", "VALUE"} -> 0
                 [] l = "READY" -> FALSE
                 [] l = "x" -> 10
                 [] OTHER -> 0,
               BotView) >>]

Latest(l) == hist[l][Len(hist[l])]

\* The stores thread t may read from location l.
Readable(t, l) == view[t][l] .. Len(hist[l])

\* The view of t after loading store i of l with ordering ord.
ViewAfterLoad(t, l, i, ord) ==
    LET base == [view[t] EXCEPT ![l] = Max(@, i)]
    IN  IF ord \in {"Acquire", "AcqRel", "SeqCst"}
        THEN JoinView(base, hist[l][i].mview)
        ELSE base

\* The view a store of t to l publishes: everything t has seen for a Release
\* store, what t had seen at its last fence(Release) for a Relaxed one.
PublishedView(t, l, ord) ==
    LET ts == Len(hist[l]) + 1
    IN  IF ord \in {"Release", "AcqRel", "SeqCst"}
        THEN [view[t] EXCEPT ![l] = ts]
        ELSE [frel[t] EXCEPT ![l] = ts]

\* atomic.store(v, ord) by t
AtomicStore(t, l, v, ord) ==
    /\ hist' = [hist EXCEPT ![l] = Append(@, Msg(v, PublishedView(t, l, ord)))]
    /\ view' = [view EXCEPT ![t][l] = Len(hist[l]) + 1]
    /\ UNCHANGED frel

\* atomic.fetch_add(x, ord) by t: one indivisible read-modify-write.  It reads
\* the newest store of l, whatever t has seen so far, and its own store
\* continues the release sequence of the store it read.
FetchAddStale(t, l, x, ord) ==
    LET old == hist[l][view[t][l]]
    IN  /\ hist' = [hist EXCEPT ![l] =
                       Append(@, Msg(old.val + x, PublishedView(t, l, ord)))]
        /\ view' = [view EXCEPT ![t][l] = Len(hist[l]) + 1]
        /\ UNCHANGED frel

FetchAdd(t, l, x, ord) ==
    LET old == Latest(l)
        seen == ViewAfterLoad(t, l, Len(hist[l]), ord)
    IN  /\ hist' = [hist EXCEPT ![l] =
                       Append(@, Msg(old.val + x,
                                     JoinView(old.mview, PublishedView(t, l, ord))))]
        /\ view' = [view EXCEPT ![t] = [seen EXCEPT ![l] = Len(hist[l]) + 1]]
        /\ UNCHANGED frel

\* atomic.compare_exchange(expected, new, success, failure) by t, the case
\* that succeeds: the newest store of l holds `expected` and is replaced.
CasSucceeds(t, l, expected, new, ord) ==
    LET old == Latest(l)
        seen == ViewAfterLoad(t, l, Len(hist[l]), ord)
    IN  /\ old.val = expected
        /\ hist' = [hist EXCEPT ![l] =
                       Append(@, Msg(new, JoinView(old.mview,
                                                   PublishedView(t, l, ord))))]
        /\ view' = [view EXCEPT ![t] = [seen EXCEPT ![l] = Len(hist[l]) + 1]]
        /\ UNCHANGED frel

\* ... and the case that fails: a load (with the failure ordering) of store i,
\* whose value is not `expected`.
CasFails(t, l, expected, i, ord) ==
    /\ i \in Readable(t, l)
    /\ hist[l][i].val # expected
    /\ view' = [view EXCEPT ![t] = ViewAfterLoad(t, l, i, ord)]
    /\ UNCHANGED <<hist, frel>>

\* compare_exchange_weak may also fail although the newest store holds
\* `expected`: a load of that store, nothing is written.
CasFailsSpuriously(t, l, ord) ==
    /\ view' = [view EXCEPT ![t] = ViewAfterLoad(t, l, Len(hist[l]), ord)]
    /\ UNCHANGED <<hist, frel>>

\* thread::spawn: the new thread starts with everything its parent has seen.
SpawnView(parent, child) == [view EXCEPT ![child] = view[parent]]

\* JoinHandle::join: the joiner sees everything the finished thread has seen.
JoinedView(joiner, child) ==
    [view EXCEPT ![joiner] = JoinView(view[joiner], view[child])]

(***************************************************************************)
(* Threads.  Every threaded example spawns its threads one after another   *)
(* from the function's own thread and then joins them in the same order.   *)
(***************************************************************************)
CounterProgs ==
    {"example_atomic_counter", "ex_relaxed_counter", "ex_atomic_cell_threads"}

PairProgs == {"ex_acquire_release_flag", "ex_atomic_ptr_and_fence"}

ThreadedProgs ==
    CounterProgs \cup PairProgs
        \cup {"example_mutation_with_mutex", "example_rwlock_readers_writers"}

\* The number of threads the example spawns.
ThreadCount(p) ==
    CASE p \in CounterProgs -> NThreads
      [] p \in PairProgs -> 2
      [] p = "example_mutation_with_mutex" -> MutexThreads
      [] p = "example_rwlock_readers_writers" -> RwReaders

\* Where the closure of the k-th spawned thread starts.
StartLabel(p, k) ==
    CASE p \in CounterProgs -> "loop"
      [] p = "ex_acquire_release_flag" -> IF k = 1 THEN "store_value" ELSE "spin"
      [] p = "ex_atomic_ptr_and_fence" -> IF k = 1 THEN "box_new" ELSE "spin"
      [] p = "example_mutation_with_mutex" -> "lock"
      [] p = "example_rwlock_readers_writers" -> "read_lock"

\* What the function does once it has joined every thread.
AfterJoin(p) ==
    CASE p \in CounterProgs -> "load"
      [] p \in PairProgs -> "done"
      [] p = "example_mutation_with_mutex" -> "print"
      [] p = "example_rwlock_readers_writers" -> "write_lock"

\* thread::spawn(closure), one call per step
thread_spawn ==
    /\ prog \in ThreadedProgs
    /\ pc[main] = "spawn"
    /\ LET k == regs[main].k + 1
       IN  /\ k <= ThreadCount(prog)
           /\ regs' = [regs EXCEPT ![main].k = k]
           /\ pc' = [pc EXCEPT ![k] = StartLabel(prog, k),
                               ![main] = IF k = ThreadCount(prog)
                                         THEN "join" ELSE "spawn"]
           /\ view' = SpawnView(main, k)
    /\ UNCHANGED <<prog, out, hist, frel, heap, rcv, lockv>>

\* JoinHandle::join returns once the thread's closure has returned ...
JoinReturnsAtOnce(j) == j \in DOMAIN pc

JoinReturns(j) == pc[j] = "done"

\* handle.join().unwrap(), one call per step
thread_join ==
    /\ prog \in ThreadedProgs
    /\ pc[main] = "join"
    /\ LET j == regs[main].j + 1
       IN  /\ JoinReturns(j)
           /\ regs' = [regs EXCEPT ![main].j = j]
           /\ pc' = [pc EXCEPT ![main] = IF j = ThreadCount(prog)
                                         THEN AfterJoin(prog) ELSE "join"]
           /\ view' = JoinedView(main, j)
    /\ UNCHANGED <<prog, out, hist, frel, heap, rcv, lockv>>

(***************************************************************************)
(* The atomic counters: example_atomic_counter (arc-doc), and              *)
(* ex_relaxed_counter and ex_atomic_cell_threads (atomic-docs).            *)
(***************************************************************************)
Workers == 1 .. NThreads

\* The atomic each example counts in: `counter`, `hits`, `sum`.
CounterLoc(p) ==
    CASE p = "example_atomic_counter" -> "counter"
      [] p = "ex_relaxed_counter" -> "hits"
      [] p = "ex_atomic_cell_threads" -> "sum"

\* for _ in 0..ITER { c.fetch_add(1, Relaxed); }
counter_fetch_add(t) ==
    /\ prog \in {"example_atomic_counter", "ex_relaxed_counter"}
    /\ pc[t] = "loop"
    /\ regs[t].i < NIters
    /\ FetchAdd(t, CounterLoc(prog), 1, "Relaxed")
    /\ regs' = [regs EXCEPT ![t].i = @ + 1]
    /\ UNCHANGED <<prog, pc, out, heap, rcv, lockv>>

\* AtomicCell<u64>::fetch_add of the FetchAdd trait, first half of fetch_update:
\* `let mut prev = self.load()`.
fetch_update_load(t) ==
    /\ prog = "ex_atomic_cell_threads"
    /\ pc[t] = "loop"
    /\ regs[t].i < NIters
    /\ \E i \in Readable(t, "sum") :
          /\ regs' = [regs EXCEPT ![t].prev = hist["sum"][i].val]
          /\ view' = [view EXCEPT ![t] = ViewAfterLoad(t, "sum", i, "Relaxed")]
    /\ pc' = [pc EXCEPT ![t] = "cas"]
    /\ UNCHANGED <<prog, out, hist, frel, heap, rcv, lockv>>

\* ... second half: compare_exchange(prev, f(prev)) with f = |cur| Some(cur + x);
\* Ok ends the call (the loop goes to its next iteration), Err(cur) retries
\* with prev = cur.
fetch_update_cas(t) ==
    /\ prog = "ex_atomic_cell_threads"
    /\ pc[t] = "cas"
    /\ \/ /\ CasSucceeds(t, "sum", regs[t].prev, regs[t].prev + 1, "Relaxed")
          /\ regs' = [regs EXCEPT ![t].i = @ + 1]
          /\ pc' = [pc EXCEPT ![t] = "loop"]
       \/ /\ \E i \in Readable(t, "sum") :
                /\ CasFails(t, "sum", regs[t].prev, i, "Relaxed")
                /\ regs' = [regs EXCEPT ![t].prev = hist["sum"][i].val]
          /\ UNCHANGED pc
    /\ UNCHANGED <<prog, out, heap, rcv, lockv>>

\* The worker's closure returns once its loop has run ITER times.
counter_worker_exit(t) ==
    /\ prog \in CounterProgs
    /\ pc[t] = "loop"
    /\ regs[t].i = NIters
    /\ pc' = [pc EXCEPT ![t] = "done"]
    /\ UNCHANGED <<prog, regs, out, memv, heap, rcv, lockv>>

\* println!("count = {}", counter.load(Relaxed))
counter_load ==
    /\ prog \in CounterProgs
    /\ pc[main] = "load"
    /\ \E i \in Readable(main, CounterLoc(prog)) :
          /\ out' = Append(out, hist[CounterLoc(prog)][i].val)
          /\ view' = [view EXCEPT ![main] =
                         ViewAfterLoad(main, CounterLoc(prog), i, "Relaxed")]
    /\ pc' = [pc EXCEPT ![main] = "done"]
    /\ UNCHANGED <<prog, regs, hist, frel, heap, rcv, lockv>>

CounterNext ==
    \/ \E t \in Workers : counter_fetch_add(t)
    \/ \E t \in Workers : fetch_update_load(t)
    \/ \E t \in Workers : fetch_update_cas(t)
    \/ \E t \in Workers : counter_worker_exit(t)
    \/ counter_load

(***************************************************************************)
(* ex_acquire_release_flag (atomic-docs): the writer stores VALUE and then *)
(* publishes READY; the reader spins on READY and then loads VALUE.        *)
(***************************************************************************)
w_thread == 1
r_thread == 2

\* The orderings the example passes.
VALUE_store_order == "Relaxed"
READY_store_relaxed == "Relaxed"
READY_store_order == "Release"
READY_load_order == "Acquire"
VALUE_load_order == "Relaxed"

\* VALUE.store(42, Relaxed)
writer_store_VALUE ==
    /\ prog = "ex_acquire_release_flag"
    /\ pc[w_thread] = "store_value"
    /\ AtomicStore(w_thread, "VALUE", 42, VALUE_store_order)
    /\ pc' = [pc EXCEPT ![w_thread] = "store_ready"]
    /\ UNCHANGED <<prog, regs, out, heap, rcv, lockv>>

\* READY.store(true, Release); the closure returns
writer_store_READY ==
    /\ prog = "ex_acquire_release_flag"
    /\ pc[w_thread] = "store_ready"
    /\ AtomicStore(w_thread, "READY", TRUE, READY_store_order)
    /\ pc' = [pc EXCEPT ![w_thread] = "done"]
    /\ UNCHANGED <<prog, regs, out, heap, rcv, lockv>>

\* while !READY.load(Acquire) { spin_loop(); }   -- one evaluation of the test
reader_spin ==
    /\ prog = "ex_acquire_release_flag"
    /\ pc[r_thread] = "spin"
    /\ \E i \in Readable(r_thread, "READY") :
          /\ view' = [view EXCEPT ![r_thread] =
                         ViewAfterLoad(r_thread, "READY", i, READY_load_order)]
          /\ regs' = [regs EXCEPT ![r_thread].ready = hist["READY"][i].val,
                                  ![r_thread].spun = @ \/ ~hist["READY"][i].val]
          /\ pc' = [pc EXCEPT ![r_thread] =
                       IF hist["READY"][i].val THEN "load_value" ELSE "spin"]
    /\ UNCHANGED <<prog, out, hist, frel, heap, rcv, lockv>>

\* let v = VALUE.load(Relaxed); println!("observed VALUE = {}", v);
reader_load_VALUE ==
    /\ prog = "ex_acquire_release_flag"
    /\ pc[r_thread] = "load_value"
    /\ \E i \in Readable(r_thread, "VALUE") :
          /\ view' = [view EXCEPT ![r_thread] =
                         ViewAfterLoad(r_thread, "VALUE", i, VALUE_load_order)]
          /\ regs' = [regs EXCEPT ![r_thread].v = hist["VALUE"][i].val]
          /\ out' = Append(out, hist["VALUE"][i].val)
    /\ pc' = [pc EXCEPT ![r_thread] = "done"]
    /\ UNCHANGED <<prog, hist, frel, heap, rcv, lockv>>

FlagNext ==
    \/ writer_store_VALUE
    \/ writer_store_READY
    \/ reader_spin
    \/ reader_load_VALUE

(***************************************************************************)
(* ex_atomic_ptr_and_fence (atomic-docs): the producer allocates a Payload *)
(* and publishes its address in PTR; the consumer spins until PTR is not   *)
(* null, reads the Payload, frees it and stores null again.                *)
(***************************************************************************)
t_thread == 1

null_mut == 0

PTR_store_order == "Release"
PTR_load_relaxed == "Relaxed"
PTR_load_order == "Acquire"

\* let b = Box::new(Payload { a: 1, b: 2 }); let raw = Box::into_raw(b);
\* the allocator returns an unused block, the fields are written (ordinary
\* writes), and the box is turned into a raw pointer.
producer_box_new ==
    /\ prog = "ex_atomic_ptr_and_fence"
    /\ pc[t_thread] = "box_new"
    /\ \E addr \in Addrs :
          /\ heap[addr].state = "unused"
          /\ heap' = [heap EXCEPT ![addr].state = "live"]
          /\ regs' = [regs EXCEPT ![t_thread].raw = addr]
    /\ hist' = [hist EXCEPT !["a"] = Append(@, Msg(1, BotView)),
                            !["b"] = Append(@, Msg(2, BotView))]
    /\ view' = [view EXCEPT ![t_thread]["a"] = Len(hist["a"]) + 1,
                            ![t_thread]["b"] = Len(hist["b"]) + 1]
    /\ pc' = [pc EXCEPT ![t_thread] = "fence"]
    /\ UNCHANGED <<prog, out, frel, rcv, lockv>>

\* fence(Release)
producer_fence ==
    /\ prog = "ex_atomic_ptr_and_fence"
    /\ pc[t_thread] = "fence"
    /\ frel' = [frel EXCEPT ![t_thread] = view[t_thread]]
    /\ pc' = [pc EXCEPT ![t_thread] = "store_ptr"]
    /\ UNCHANGED <<prog, regs, out, hist, view, heap, rcv, lockv>>

\* PTR.store(raw, Release); the closure returns
producer_store_PTR ==
    /\ prog = "ex_atomic_ptr_and_fence"
    /\ pc[t_thread] = "store_ptr"
    /\ AtomicStore(t_thread, "PTR", regs[t_thread].raw, PTR_store_order)
    /\ pc' = [pc EXCEPT ![t_thread] = "done"]
    /\ UNCHANGED <<prog, regs, out, heap, rcv, lockv>>

\* loop { p = PTR.load(Acquire); if !p.is_null() { break; } spin_loop(); }
\* -- one iteration
consumer_spin ==
    /\ prog = "ex_atomic_ptr_and_fence"
    /\ pc[r_thread] = "spin"
    /\ \E i \in Readable(r_thread, "PTR") :
          /\ view' = [view EXCEPT ![r_thread] =
                         ViewAfterLoad(r_thread, "PTR", i, PTR_load_order)]
          /\ regs' = [regs EXCEPT ![r_thread].p = hist["PTR"][i].val]
          /\ pc' = [pc EXCEPT ![r_thread] =
                       IF hist["PTR"][i].val # null_mut THEN "deref" ELSE "spin"]
    /\ UNCHANGED <<prog, out, hist, frel, heap, rcv, lockv>>

\* let val = unsafe { &*p }; println!("read via ptr: {:?}", val);
\* The fields are read with ordinary reads: each returns a write the consumer
\* may still see (any of them, when the newest is not ordered before the read).
\* `live` records whether p pointed to a live block at that moment.
consumer_deref ==
    /\ prog = "ex_atomic_ptr_and_fence"
    /\ pc[r_thread] = "deref"
    /\ \E i \in Readable(r_thread, "a"), j \in Readable(r_thread, "b") :
          /\ regs' = [regs EXCEPT
                         ![r_thread].val = << hist["a"][i].val, hist["b"][j].val >>,
                         ![r_thread].live =
                             /\ regs[r_thread].p \in Addrs
                             /\ heap[regs[r_thread].p].state = "live"]
          /\ out' = Append(out, << hist["a"][i].val, hist["b"][j].val >>)
    /\ pc' = [pc EXCEPT ![r_thread] = "free"]
    /\ UNCHANGED <<prog, memv, heap, rcv, lockv>>

\* unsafe { drop(Box::from_raw(p)); }
consumer_free ==
    /\ prog = "ex_atomic_ptr_and_fence"
    /\ pc[r_thread] = "free"
    /\ regs[r_thread].p \in Addrs
    /\ heap' = [heap EXCEPT ![regs[r_thread].p] =
                   [@ EXCEPT !.state = "freed", !.frees = @ + 1, !.by = r_thread]]
    /\ pc' = [pc EXCEPT ![r_thread] = "store_null"]
    /\ UNCHANGED <<prog, regs, out, memv, rcv, lockv>>

\* PTR.store(std::ptr::null_mut(), Release); the closure returns
consumer_store_null ==
    /\ prog = "ex_atomic_ptr_and_fence"
    /\ pc[r_thread] = "store_null"
    /\ AtomicStore(r_thread, "PTR", null_mut, PTR_store_order)
    /\ pc' = [pc EXCEPT ![r_thread] = "done"]
    /\ UNCHANGED <<prog, regs, out, heap, rcv, lockv>>

PtrNext ==
    \/ producer_box_new
    \/ producer_fence
    \/ producer_store_PTR
    \/ consumer_spin
    \/ consumer_deref
    \/ consumer_free
    \/ consumer_store_null

(***************************************************************************)
(* ex_compare_exchange (atomic-docs): a one-time init of `id` from 0 to 7  *)
(* by compare_exchange, then a loop that proposes x + 2 for an even x by   *)
(* compare_exchange_weak and retries when the exchange fails.  The         *)
(* function runs in one thread; both atomics are its locals.               *)
(***************************************************************************)
my_id == 7

\* Where the arm Ok(_) => { println!(..); break; } of the loop's match goes.
OkArmRetries == "loop_load"

OkArm == "print_x"

CxAt(l) == prog = "ex_compare_exchange" /\ pc[main] = l

CxGoto(l) == pc' = [pc EXCEPT ![main] = l]

\* let _ = id.compare_exchange(0, my_id, AcqRel, Acquire).ok();
cx_init_cas ==
    /\ CxAt("init_cas")
    /\ IF Latest("id").val = 0
       THEN CasSucceeds(main, "id", 0, my_id, "AcqRel")
       ELSE CasFails(main, "id", 0, Len(hist["id"]), "Acquire")
    /\ CxGoto("print_id")
    /\ UNCHANGED <<prog, regs, out, heap, rcv, lockv>>

\* println!("id after one-time init = {}", id.load(Acquire));
cx_print_id ==
    /\ CxAt("print_id")
    /\ \E i \in Readable(main, "id") :
          /\ out' = Append(out, hist["id"][i].val)
          /\ view' = [view EXCEPT ![main] = ViewAfterLoad(main, "id", i, "Acquire")]
    /\ CxGoto("loop_load")
    /\ UNCHANGED <<prog, regs, hist, frel, heap, rcv, lockv>>

\* loop { let cur = x.load(Relaxed); if cur % 2 == 1 { println!(..); break; }
cx_loop_load ==
    /\ CxAt("loop_load")
    /\ \E i \in Readable(main, "x") :
          /\ regs' = [regs EXCEPT ![main].cur = hist["x"][i].val]
          /\ view' = [view EXCEPT ![main] = ViewAfterLoad(main, "x", i, "Relaxed")]
          /\ CxGoto(IF hist["x"][i].val % 2 = 1 THEN "done" ELSE "cas_weak")
    /\ UNCHANGED <<prog, out, hist, frel, heap, rcv, lockv>>

\* match x.compare_exchange_weak(cur, cur + 2, AcqRel, Acquire) {
\*     Ok(_) => { ..; break; }   Err(_) => { spin_loop(); } }
\* `spurious`: whether this call fails although x still holds cur.
cx_cas_weak(spurious) ==
    /\ CxAt("cas_weak")
    /\ LET cur == regs[main].cur
       IN  IF Latest("x").val = cur /\ ~spurious
           THEN /\ CasSucceeds(main, "x", cur, cur + 2, "AcqRel")
                /\ regs' = [regs EXCEPT ![main].exchanges = @ + 1]
                /\ CxGoto(OkArm)
           ELSE /\ IF Latest("x").val = cur
                   THEN CasFailsSpuriously(main, "x", "Acquire")
                   ELSE CasFails(main, "x", cur, Len(hist["x"]), "Acquire")
                /\ regs' = [regs EXCEPT ![main].retried = TRUE]
                /\ CxGoto("loop_load")
    /\ UNCHANGED <<prog, out, heap, rcv, lockv>>

\* println!("x -> {}", x.load(Relaxed)); break;
cx_print_x ==
    /\ CxAt("print_x")
    /\ \E i \in Readable(main, "x") :
          /\ out' = Append(out, hist["x"][i].val)
          /\ view' = [view EXCEPT ![main] = ViewAfterLoad(main, "x", i, "Relaxed")]
    /\ CxGoto("done")
    /\ UNCHANGED <<prog, regs, hist, frel, heap, rcv, lockv>>

CxNext ==
    \/ cx_init_cas
    \/ cx_print_id
    \/ cx_loop_load
    \/ \E spurious \in BOOLEAN : cx_cas_weak(spurious)
    \/ cx_print_x

(***************************************************************************)
(* Rc<T> / Arc<T> / Weak<T>.  An allocation n has a strong count, a weak   *)
(* count (not counting the hidden allocation guard) and a value; the value *)
(* is dropped when the strong count reaches 0, and with it every handle    *)
(* stored inside it; the allocation is freed when both counts are 0.       *)
(* `handles` is the set of handles the program holds: for each its name,   *)
(* its kind, the allocation it points to ("none" for a Weak::new()) and    *)
(* where it lives ("stack", or the allocation whose value contains it).    *)
(* The operators below take and return a state st = [cnt, handles].        *)
(***************************************************************************)
NoAlloc == [strong |-> 0, weak |-> 0, value |-> "none", freed |-> FALSE]

RcState == [cnt |-> cnt, handles |-> handles]

Handle(id, kind, to, in) == [id |-> id, kind |-> kind, to |-> to, in |-> in]

Live(id) == \E h \in handles : h.id = id

H(id) == CHOOSE h \in handles : h.id = id

\* Rc::new(value) / Arc::new(value): a fresh allocation with one strong handle
RcNew(st, n, id, in) ==
    [cnt |-> [st.cnt EXCEPT ![n] = [strong |-> 1, weak |-> 0,
                                    value |-> "live", freed |-> FALSE]],
     handles |-> st.handles \cup {Handle(id, "strong", n, in)}]

\* Weak::new(): a Weak that points to no allocation
WeakNew(st, id, in) ==
    [st EXCEPT !.handles = @ \cup {Handle(id, "weak", "none", in)}]

\* Rc::clone(&src): one more strong handle, the strong count goes up by one
RcCloneNoCount(st, src, id, in) ==
    [st EXCEPT !.handles = @ \cup {Handle(id, "strong", src.to, in)}]

RcClone(st, src, id, in) ==
    [cnt |-> [st.cnt EXCEPT ![src.to].strong = @ + 1],
     handles |-> st.handles \cup {Handle(id, "strong", src.to, in)}]

\* Rc::downgrade(&src): one more Weak, the weak count goes up by one
RcDowngradeOwning(st, src, id, in) ==
    [cnt |-> [st.cnt EXCEPT ![src.to].strong = @ + 1],
     handles |-> st.handles \cup {Handle(id, "weak", src.to, in)}]

RcDowngrade(st, src, id, in) ==
    [cnt |-> [st.cnt EXCEPT ![src.to].weak = @ + 1],
     handles |-> st.handles \cup {Handle(id, "weak", src.to, in)}]

\* Weak::upgrade(&w) is Some exactly when the strong count is not 0 ...
UpgradeIfAllocated(st, w) ==
    /\ w.to # "none"
    /\ ~st.cnt[w.to].freed

UpgradeIsSome(st, w) ==
    /\ w.to # "none"
    /\ st.cnt[w.to].strong > 0

\* ... and then yields one more strong handle (named id, on the stack).
RcUpgrade(st, w, id) ==
    IF UpgradeIsSome(st, w)
    THEN [cnt |-> [st.cnt EXCEPT ![w.to].strong = @ + 1],
          handles |-> st.handles \cup {Handle(id, "strong", w.to, "stack")}]
    ELSE st

\* The allocation is freed once both counts are 0.
Settle(c, n) ==
    IF c[n].strong = 0 /\ c[n].weak = 0 THEN [c EXCEPT ![n].freed = TRUE] ELSE c

\* Dropping a handle without looking at what the value owns.
RcDropShallow(st, h) ==
    LET rest == st.handles \ {h}
    IN  IF h.to = "none" THEN [st EXCEPT !.handles = rest]
        ELSE IF h.kind = "weak"
        THEN [cnt |-> Settle([st.cnt EXCEPT ![h.to].weak = @ - 1], h.to),
              handles |-> rest]
        ELSE LET c == [st.cnt EXCEPT ![h.to].strong = @ - 1]
             IN  IF c[h.to].strong > 0
                 THEN [cnt |-> c, handles |-> rest]
                 ELSE [cnt |-> Settle([c EXCEPT ![h.to].value = "dropped"], h.to),
                       handles |-> rest]

RECURSIVE DropHandle(_, _)
RECURSIVE DropValue(_, _)

\* drop of handle h.  A Weak lowers the weak count.  A strong handle lowers the
\* strong count, and the last one drops the value.
DropHandle(st, h) ==
    LET rest == st.handles \ {h}
    IN  IF h.to = "none" THEN [st EXCEPT !.handles = rest]
        ELSE IF h.kind = "weak"
        THEN [cnt |-> Settle([st.cnt EXCEPT ![h.to].weak = @ - 1], h.to),
              handles |-> rest]
        ELSE LET c == [st.cnt EXCEPT ![h.to].strong = @ - 1]
             IN  IF c[h.to].strong > 0
                 THEN [cnt |-> c, handles |-> rest]
                 ELSE DropValue([cnt |-> [c EXCEPT ![h.to].value = "dropped"],
                                 handles |-> rest], h.to)

\* Dropping the value of n drops every handle stored in it, then the
\* allocation is freed if no Weak is left.
DropValue(st, n) ==
    LET fields == {f \in st.handles : f.in = n}
    IN  IF fields = {}
        THEN [st EXCEPT !.cnt = Settle(@, n)]
        ELSE DropValue(DropHandle(st, CHOOSE f \in fields : TRUE), n)

RcDrop(st, h) == DropHandle(st, h)

\* Whether some strong handle to allocation n is alive.
StrongAlive(n) == \E h \in handles : h.kind = "strong" /\ h.to = n

\* Arc::try_unwrap(h) is Ok exactly when the strong count is 1 ...
TryUnwrapAlwaysOk(st, h) == h.kind = "strong"

TryUnwrapIsOk(st, h) == st.cnt[h.to].strong = 1

\* ... and then the handle is consumed and the value moved out to the caller
\* (it is not dropped; the allocation is freed if no Weak is left).
\* Otherwise the same Arc comes back, bound to the name `back`, and neither
\* the counts nor the value change.
TryUnwrap(st, h, back) ==
    IF TryUnwrapIsOk(st, h)
    THEN [cnt |-> Settle([st.cnt EXCEPT ![h.to].strong = @ - 1,
                                        ![h.to].value = "moved"], h.to),
          handles |-> st.handles \ {h}]
    ELSE [st EXCEPT !.handles = (@ \ {h}) \cup {[h EXCEPT !.id = back]}]

(***************************************************************************)
(* The Rc/Arc/Weak examples, statement by statement.  Each script lists    *)
(* the statements of one example function in program order, the drops at   *)
(* the end of a block or of the function included (locals are dropped in   *)
(* reverse order of declaration).                                          *)
(***************************************************************************)
I_new(n, h) == [op |-> "new", n |-> n, h |-> h]
I_weak_new(h, in) == [op |-> "weak_new", h |-> h, in |-> in]
I_clone(src, h, in) == [op |-> "clone", src |-> src, h |-> h, in |-> in]
\* `*field = Rc::downgrade(&src)`: the assignment drops the field's old value
I_downgrade(src, h, in, old) ==
    [op |-> "downgrade", src |-> src, h |-> h, in |-> in, old |-> old]
I_upgrade(wk, h) == [op |-> "upgrade", w |-> wk, h |-> h]
I_drop(h) == [op |-> "drop", h |-> h]
I_print_strong(h) == [op |-> "print", h |-> h, what |-> "strong"]
I_print_weak(h) == [op |-> "print", h |-> h, what |-> "weak"]
I_print_counts(h) == [op |-> "print", h |-> h, what |-> "both"]
\* a println! that depends on the Option the last upgrade returned ("" prints
\* nothing)
I_print_if(some, none) == [op |-> "print_if", some |-> some, none |-> none]
I_assert_none == [op |-> "assert_none"]
I_spawn(k) == [op |-> "spawn", k |-> k]
I_join(k) == [op |-> "join", k |-> k]
I_sleep == [op |-> "sleep"]

\* rc-doc example_basic
Script_rc_example_basic ==
    << I_new("a", "a"),
       I_clone("a", "b", "stack"),
       I_clone("a", "c", "stack"),
       I_print_strong("a"),
       I_drop("b"),
       I_print_strong("a"),
       I_drop("c"),
       I_print_strong("a"),
       I_drop("a") >>

\* rc-doc example_tree_like_sharing
Script_example_tree_like_sharing ==
    << I_new("leaf", "leaf"),
       I_clone("leaf", "branch1.next", "branch1"),
       I_new("branch1", "branch1"),
       I_clone("leaf", "branch2.next", "branch2"),
       I_new("branch2", "branch2"),
       I_print_strong("leaf"),
       I_drop("branch2"),
       I_drop("branch1"),
       I_drop("leaf") >>

\* weak-doc ex_rc_weak_basics
Script_ex_rc_weak_basics ==
    << I_new("strong", "strong"),
       I_downgrade("strong", "weak", "stack", "none"),
       I_print_strong("strong"),
       I_print_weak("strong"),
       I_upgrade("weak", "s"),
       I_print_if("upgrade -> hello", ""),
       I_drop("s"),
       I_drop("strong"),
       I_upgrade("weak", "tmp"),
       I_drop("tmp"),
       I_assert_none,
       I_print_if("", "after drop: upgrade -> None"),
       I_drop("weak") >>

\* The two nodes of a graph example and the two edges between them: parent
\* --strong--> child, child --weak--> parent.
GraphSetup(parent, child) ==
    << I_weak_new("parent.init", parent),
       I_new(parent, parent),
       I_weak_new("child.parent.init", child),
       I_new(child, child),
       I_clone(child, "parent.children[0]", parent),
       I_downgrade(parent, "child.parent", child, "child.parent.init") >>

\* weak-doc ex_rc_cycle_vs_weak
Script_ex_rc_cycle_vs_weak ==
    GraphSetup("parent", "child") \o
    << I_print_counts("parent"),
       I_print_counts("child"),
       I_drop("parent"),
       I_upgrade("child.parent", "tmp"),
       I_drop("tmp"),
       I_print_if("", "parent has been dropped; weak back-edge is now None"),
       I_drop("child") >>

\* arc-doc example_weak_to_avoid_cycles
Script_arc_example_weak_to_avoid_cycles ==
    GraphSetup("root", "child") \o
    << I_print_strong("root"),
       I_print_strong("child"),
       I_upgrade("child.parent", "parent"),
       I_print_if("child's parent = root", ""),
       I_drop("parent"),
       I_drop("root"),
       I_sleep,
       I_upgrade("child.parent", "tmp"),
       I_drop("tmp"),
       I_print_if("", "child's parent has been dropped (weak link is None)"),
       I_drop("child") >>

\* rc-doc example_weak_to_avoid_cycles
Script_rc_example_weak_to_avoid_cycles ==
    GraphSetup("root", "child") \o
    << I_print_strong("root"),
       I_print_strong("child"),
       I_upgrade("child.parent", "parent_rc"),
       I_print_if("child's parent = root", "child's parent already dropped"),
       I_drop("parent_rc"),
       I_drop("child"),
       I_drop("root") >>

\* weak-doc ex_leak_then_fix: BadNode a <-> b with a strong back-edge, then
\* GoodNode p <-> c with a weak one.
Script_ex_leak_then_fix ==
    << I_new("a", "a"),
       I_new("b", "b"),
       I_clone("b", "a.children[0]", "a"),
       I_clone("a", "b.parent", "b"),
       I_print_counts("a"),
       I_print_counts("b") >> \o
    GraphSetup("p", "c") \o
    << I_print_counts("p"),
       I_print_counts("c"),
       I_drop("c"),
       I_drop("p"),
       I_drop("b"),
       I_drop("a") >>

\* weak-doc ex_arc_weak_multithread, the function's own thread ...
Script_ex_arc_weak_multithread ==
    GraphSetup("root", "leaf") \o
    << I_print_counts("root"),
       I_print_counts("leaf"),
       I_clone("leaf", "leaf@thread", "stack"),
       I_spawn(1),
       I_drop("root"),
       I_join(1),
       I_drop("leaf") >>

\* ... and the closure of the thread it spawns.
Script_ex_arc_weak_multithread_thread ==
    << I_sleep,
       I_upgrade("child.parent", "tmp"),
       I_drop("tmp"),
       I_print_if("", "[thread] root dropped; weak back-edge is None"),
       I_drop("leaf@thread") >>

GraphProgs ==
    {"weak_doc::ex_rc_cycle_vs_weak", "arc_doc::example_weak_to_avoid_cycles",
     "rc_doc::example_weak_to_avoid_cycles"}

ScriptProgs ==
    GraphProgs \cup
    {"rc_doc::example_basic", "rc_doc::example_tree_like_sharing",
     "weak_doc::ex_rc_weak_basics", "weak_doc::ex_leak_then_fix",
     "weak_doc::ex_arc_weak_multithread"}

Script(p, t) ==
    CASE p = "rc_doc::example_basic" -> Script_rc_example_basic
      [] p = "rc_doc::example_tree_like_sharing" -> Script_example_tree_like_sharing
      [] p = "weak_doc::ex_rc_weak_basics" -> Script_ex_rc_weak_basics
      [] p = "weak_doc::ex_rc_cycle_vs_weak" -> Script_ex_rc_cycle_vs_weak
      [] p = "arc_doc::example_weak_to_avoid_cycles" ->
            Script_arc_example_weak_to_avoid_cycles
      [] p = "rc_doc::example_weak_to_avoid_cycles" ->
            Script_rc_example_weak_to_avoid_cycles
      [] p = "weak_doc::ex_leak_then_fix" -> Script_ex_leak_then_fix
      [] p = "weak_doc::ex_arc_weak_multithread" ->
            IF t = main THEN Script_ex_arc_weak_multithread
            ELSE Script_ex_arc_weak_multithread_thread

\* The allocations an example creates.
AllocsOf(p) ==
    {Script(p, main)[i].n : i \in {j \in 1 .. Len(Script(p, main)) :
                                      Script(p, main)[j].op = "new"}}

\* Thread t is at a statement of its script (0: not spawned; past the end:
\* returned).
Running(t) ==
    /\ prog \in ScriptProgs
    /\ pc[t] \in 1 .. Len(Script(prog, t))

Instr(t) == Script(prog, t)[pc[t]]

Returned(t) == pc[t] = Len(Script(prog, t)) + 1

Advance(t) == pc' = [pc EXCEPT ![t] = @ + 1]

SetRc(st) == cnt' = st.cnt /\ handles' = st.handles

\* let h = Rc::new(..) / Arc::new(..)
rc_new(t) ==
    /\ Running(t) /\ Instr(t).op = "new"
    /\ SetRc(RcNew(RcState, Instr(t).n, Instr(t).h, "stack"))
    /\ Advance(t)
    /\ UNCHANGED <<prog, regs, out, memv, heap, lockv>>

\* parent: RefCell::new(Weak::new())
rc_weak_new(t) ==
    /\ Running(t) /\ Instr(t).op = "weak_new"
    /\ SetRc(WeakNew(RcState, Instr(t).h, Instr(t).in))
    /\ Advance(t)
    /\ UNCHANGED <<prog, regs, out, memv, heap, lockv>>

\* Rc::clone(&src) / src.clone(), the clone kept in a local or moved into a
\* field
rc_clone(t) ==
    /\ Running(t) /\ Instr(t).op = "clone"
    /\ SetRc(RcClone(RcState, H(Instr(t).src), Instr(t).h, Instr(t).in))
    /\ Advance(t)
    /\ UNCHANGED <<prog, regs, out, memv, heap, lockv>>

\* Rc::downgrade(&src), the Weak kept in a local or assigned to a field
rc_downgrade(t) ==
    /\ Running(t) /\ Instr(t).op = "downgrade"
    /\ LET st == RcDowngrade(RcState, H(Instr(t).src), Instr(t).h, Instr(t).in)
       IN  SetRc(IF Instr(t).old = "none" THEN st
                 ELSE RcDrop(st, H(Instr(t).old)))
    /\ Advance(t)
    /\ UNCHANGED <<prog, regs, out, memv, heap, lockv>>

\* w.upgrade(): the thread remembers what it got, and whether a strong handle
\* to the allocation was alive when it asked
rc_upgrade(t) ==
    /\ Running(t) /\ Instr(t).op = "upgrade"
    /\ LET wk == H(Instr(t).w)
       IN  /\ SetRc(RcUpgrade(RcState, wk, Instr(t).h))
           /\ regs' = [regs EXCEPT ![t].last_up =
                          [some |-> UpgradeIsSome(RcState, wk),
                           alive |-> StrongAlive(wk.to),
                           at |-> pc[t]]]
    /\ Advance(t)
    /\ UNCHANGED <<prog, out, memv, heap, lockv>>

\* drop(h), or h going out of scope; nothing to drop when h was never bound
\* (the None of an upgrade)
rc_drop(t) ==
    /\ Running(t) /\ Instr(t).op = "drop"
    /\ IF Live(Instr(t).h)
       THEN SetRc(RcDrop(RcState, H(Instr(t).h)))
       ELSE UNCHANGED rcv
    /\ Advance(t)
    /\ UNCHANGED <<prog, regs, out, memv, heap, lockv>>

\* println!(.., Rc::strong_count(&h), Rc::weak_count(&h))
rc_print(t) ==
    /\ Running(t) /\ Instr(t).op = "print"
    /\ LET c == cnt[H(Instr(t).h).to]
       IN  out' = out \o CASE Instr(t).what = "strong" -> << c.strong >>
                           [] Instr(t).what = "weak" -> << c.weak >>
                           [] Instr(t).what = "both" -> << c.strong, c.weak >>
    /\ Advance(t)
    /\ UNCHANGED <<prog, regs, memv, heap, rcv, lockv>>

\* if let Some(..) = .. { println!(..) } else { println!(..) }
\* / if ...upgrade().is_none() { println!(..) }
rc_print_if(t) ==
    /\ Running(t) /\ Instr(t).op = "print_if"
    /\ LET msg == IF regs[t].last_up.some THEN Instr(t).some ELSE Instr(t).none
       IN  regs' = [regs EXCEPT ![t].said = IF msg = "" THEN @ ELSE Append(@, msg)]
    /\ Advance(t)
    /\ UNCHANGED <<prog, out, memv, heap, rcv, lockv>>

\* assert!(weak.upgrade().is_none())
rc_assert_none(t) ==
    /\ Running(t) /\ Instr(t).op = "assert_none"
    /\ IF regs[t].last_up.some
       THEN /\ regs' = [regs EXCEPT ![t].panicked = TRUE]
            /\ pc' = [pc EXCEPT ![t] = Len(Script(prog, t)) + 1]
       ELSE /\ Advance(t)
            /\ UNCHANGED regs
    /\ UNCHANGED <<prog, out, memv, heap, rcv, lockv>>

\* thread::spawn(move || ..)
rc_spawn(t) ==
    /\ Running(t) /\ Instr(t).op = "spawn"
    /\ pc' = [pc EXCEPT ![t] = @ + 1, ![Instr(t).k] = 1]
    /\ UNCHANGED <<prog, regs, out, memv, heap, rcv, lockv>>

\* thread::sleep(Duration::from_millis(10)): the thread goes on some time
\* later; what the other threads do meanwhile is up to the scheduler
rc_sleep(t) ==
    /\ Running(t) /\ Instr(t).op = "sleep"
    /\ Advance(t)
    /\ UNCHANGED <<prog, regs, out, memv, heap, rcv, lockv>>

\* handle.join().unwrap()
rc_join(t) ==
    /\ Running(t) /\ Instr(t).op = "join"
    /\ Returned(Instr(t).k)
    /\ Advance(t)
    /\ UNCHANGED <<prog, regs, out, memv, heap, rcv, lockv>>

ScriptThreads == IF prog \in ScriptProgs THEN DOMAIN pc ELSE {}

ScriptNext ==
    \E t \in ScriptThreads :
        \/ rc_new(t)
        \/ rc_weak_new(t)
        \/ rc_clone(t)
        \/ rc_downgrade(t)
        \/ rc_upgrade(t)
        \/ rc_drop(t)
        \/ rc_print(t)
        \/ rc_print_if(t)
        \/ rc_assert_none(t)
        \/ rc_spawn(t)
        \/ rc_sleep(t)
        \/ rc_join(t)

(***************************************************************************)
(* ex_box_pin_address_stability (pin-doc).  Box::pin puts the String in a  *)
(* heap block; the Pin<Box<String>> handle is the address of that block,   *)
(* kept in a stack slot.  Moving the handle copies the address into        *)
(* another slot (which one is the compiler's choice).                      *)
(***************************************************************************)
Slots == 1 .. NSlots

NoHandle == [slot |-> 0, ptr |-> 0]

\* fn addr_of<T>(r: &T) -> usize, applied to &*handle
addr_of(hd) == hd.ptr

\* A move of the handle: the pointer is copied to the new slot.
MoveRelocating(hd, slot) ==
    [slot |-> slot, ptr |-> CHOOSE a \in Addrs : a # hd.ptr]

Move(hd, slot) == [slot |-> slot, ptr |-> hd.ptr]

PinAt(l) == prog = "ex_box_pin_address_stability" /\ pc[main] = l

PinGoto(l) == pc' = [pc EXCEPT ![main] = l]

\* let p = Box::pin(String::from("hello"));
pin_box_pin ==
    /\ PinAt("box_pin")
    /\ \E addr \in Addrs, slot \in Slots :
          /\ heap[addr].state = "unused"
          /\ heap' = [heap EXCEPT ![addr].state = "live", ![addr].val = "hello"]
          /\ regs' = [regs EXCEPT ![main].p = [slot |-> slot, ptr |-> addr],
                                  ![main].slot0 = slot]
    /\ PinGoto("start_addr")
    /\ UNCHANGED <<prog, out, memv, rcv, lockv>>

\* let start_addr = addr_of(&*p); println!(..)
pin_start_addr ==
    /\ PinAt("start_addr")
    /\ regs' = [regs EXCEPT ![main].start_addr = addr_of(regs[main].p)]
    /\ out' = Append(out, addr_of(regs[main].p))
    /\ PinGoto("move_pin")
    /\ UNCHANGED <<prog, memv, heap, rcv, lockv>>

\* let p = move_pin(p);   with fn move_pin(p) -> .. { p }: the handle is moved
\* into the parameter and out again as the result
pin_move_pin ==
    /\ PinAt("move_pin")
    /\ \E param \in Slots, result \in Slots :
          regs' = [regs EXCEPT ![main].p = Move(Move(regs[main].p, param), result)]
    /\ PinGoto("middle_addr")
    /\ UNCHANGED <<prog, out, memv, heap, rcv, lockv>>

\* let middle_addr = addr_of(&*p); println!(..)
pin_middle_addr ==
    /\ PinAt("middle_addr")
    /\ regs' = [regs EXCEPT ![main].middle_addr = addr_of(regs[main].p)]
    /\ out' = Append(out, addr_of(regs[main].p))
    /\ PinGoto("move_p2")
    /\ UNCHANGED <<prog, memv, heap, rcv, lockv>>

\* let p2 = p;
pin_move_p2 ==
    /\ PinAt("move_p2")
    /\ \E slot \in Slots :
          regs' = [regs EXCEPT ![main].p2 = Move(regs[main].p, slot),
                               ![main].p = NoHandle]
    /\ PinGoto("end_addr")
    /\ UNCHANGED <<prog, out, memv, heap, rcv, lockv>>

\* let end_addr = addr_of(&*p2); println!(..)
pin_end_addr ==
    /\ PinAt("end_addr")
    /\ regs' = [regs EXCEPT ![main].end_addr = addr_of(regs[main].p2)]
    /\ out' = Append(out, addr_of(regs[main].p2))
    /\ PinGoto("assert")
    /\ UNCHANGED <<prog, memv, heap, rcv, lockv>>

\* assert_eq!(start_addr, middle_addr); assert_eq!(start_addr, end_addr);
pin_assert ==
    /\ PinAt("assert")
    /\ IF /\ regs[main].start_addr = regs[main].middle_addr
          /\ regs[main].start_addr = regs[main].end_addr
       THEN /\ PinGoto("push_str")
            /\ UNCHANGED regs
       ELSE /\ PinGoto("done")
            /\ regs' = [regs EXCEPT ![main].panicked = TRUE]
    /\ UNCHANGED <<prog, out, memv, heap, rcv, lockv>>

\* let mut p2 = p2; Pin::get_mut(Pin::as_mut(&mut p2)).push_str(" world");
pin_push_str ==
    /\ PinAt("push_str")
    /\ \E slot \in Slots :
          regs' = [regs EXCEPT ![main].p2 = Move(regs[main].p2, slot)]
    /\ heap' = [heap EXCEPT ![regs[main].p2.ptr].val = "hello world"]
    /\ PinGoto("drop")
    /\ UNCHANGED <<prog, out, memv, rcv, lockv>>

\* p2 goes out of scope: the box frees its block
pin_drop ==
    /\ PinAt("drop")
    /\ heap' = [heap EXCEPT ![regs[main].p2.ptr] =
                   [@ EXCEPT !.state = "freed", !.frees = @ + 1]]
    /\ regs' = [regs EXCEPT ![main].p2 = NoHandle]
    /\ PinGoto("done")
    /\ UNCHANGED <<prog, out, memv, rcv, lockv>>

PinNext ==
    \/ pin_box_pin
    \/ pin_start_addr
    \/ pin_move_pin
    \/ pin_middle_addr
    \/ pin_move_p2
    \/ pin_end_addr
    \/ pin_assert
    \/ pin_push_str
    \/ pin_drop

(***************************************************************************)
(* example_mutation_with_mutex (arc-doc): four threads, thread i locks the *)
(* Mutex<Vec<i32>>, pushes i and releases the lock as its closure returns. *)
(* Vec::push reads the length, then writes the element and the new length. *)
(***************************************************************************)
Pushers == 1 .. MutexThreads

\* Mutex::lock returns once no thread holds the lock.
NeverBlocks == TRUE

CanLock == ~lock.held

\* let mut guard = d.lock().unwrap();
mutex_lock(t) ==
    /\ prog = "example_mutation_with_mutex"
    /\ pc[t] = "lock"
    /\ CanLock
    /\ lock' = [held |-> TRUE, by |-> t]
    /\ pc' = [pc EXCEPT ![t] = "push"]
    /\ UNCHANGED <<prog, regs, out, memv, heap, rcv, data>>

\* guard.push(i), first half: the vector's length is read
mutex_push_len(t) ==
    /\ prog = "example_mutation_with_mutex"
    /\ pc[t] = "push"
    /\ regs' = [regs EXCEPT ![t].len = Len(data)]
    /\ pc' = [pc EXCEPT ![t] = "push_write"]
    /\ UNCHANGED <<prog, out, memv, heap, rcv, lockv>>

\* ... second half: i is written at that index and the length becomes len + 1
mutex_push_write(t) ==
    /\ prog = "example_mutation_with_mutex"
    /\ pc[t] = "push_write"
    /\ data' = SubSeq(data, 1, regs[t].len) \o << t >>
    /\ pc' = [pc EXCEPT ![t] = "unlock"]
    /\ UNCHANGED <<prog, regs, out, memv, heap, rcv, lock>>

\* the guard is dropped as the closure returns
mutex_unlock(t) ==
    /\ prog = "example_mutation_with_mutex"
    /\ pc[t] = "unlock"
    /\ lock' = [held |-> FALSE, by |-> main]
    /\ pc' = [pc EXCEPT ![t] = "done"]
    /\ UNCHANGED <<prog, regs, out, memv, heap, rcv, data>>

\* println!("data = {:?}", *data.lock().unwrap());
mutex_print ==
    /\ prog = "example_mutation_with_mutex"
    /\ pc[main] = "print"
    /\ CanLock
    /\ out' = Append(out, data)
    /\ pc' = [pc EXCEPT ![main] = "done"]
    /\ UNCHANGED <<prog, regs, memv, heap, rcv, lockv>>

MutexNext ==
    \/ \E t \in Pushers : mutex_lock(t)
    \/ \E t \in Pushers : mutex_push_len(t)
    \/ \E t \in Pushers : mutex_push_write(t)
    \/ \E t \in Pushers : mutex_unlock(t)
    \/ mutex_print

(***************************************************************************)
(* example_rwlock_readers_writers (arc-doc): the function takes the write  *)
(* guard of the RwLock<u64> and adds 10, spawns three readers that each    *)
(* take a read guard and print the value, joins them, takes the write      *)
(* guard again and adds 1, and prints the value under a read guard.        *)
(* lock = [writer, readers]: whether the write guard is held, and the      *)
(* threads that hold a read guard; data is the u64.                        *)
(***************************************************************************)
Readers == 1 .. RwReaders

\* RwLock::write returns once no guard of either kind is held.
CanWrite == ~lock.writer /\ lock.readers = {}

\* RwLock::read returns once no write guard is held.
CanRead == ~lock.writer

\* What the n-th write block adds: *w += 10, then *w += 1.
WriteAdds(n) == IF n = 1 THEN 10 ELSE 1

\* let mut w = num.write().unwrap();
rw_write_lock ==
    /\ prog = "example_rwlock_readers_writers"
    /\ pc[main] = "write_lock"
    /\ CanWrite
    /\ lock' = [lock EXCEPT !.writer = TRUE]
    /\ pc' = [pc EXCEPT ![main] = "write_load"]
    /\ UNCHANGED <<prog, regs, out, memv, heap, rcv, data>>

\* *w += n, first half: the value is read
rw_write_load ==
    /\ prog = "example_rwlock_readers_writers"
    /\ pc[main] = "write_load"
    /\ regs' = [regs EXCEPT ![main].tmp = data]
    /\ pc' = [pc EXCEPT ![main] = "write_store"]
    /\ UNCHANGED <<prog, out, memv, heap, rcv, lockv>>

\* ... second half: the sum is written
rw_write_store ==
    /\ prog = "example_rwlock_readers_writers"
    /\ pc[main] = "write_store"
    /\ data' = regs[main].tmp + WriteAdds(regs[main].w)
    /\ pc' = [pc EXCEPT ![main] = "write_unlock"]
    /\ UNCHANGED <<prog, regs, out, memv, heap, rcv, lock>>

\* the write guard is dropped at the end of its block; the first block is
\* followed by the spawn loop, the second by the final println!
rw_write_unlock ==
    /\ prog = "example_rwlock_readers_writers"
    /\ pc[main] = "write_unlock"
    /\ lock' = [lock EXCEPT !.writer = FALSE]
    /\ regs' = [regs EXCEPT ![main].w = @ + 1]
    /\ pc' = [pc EXCEPT ![main] = IF regs[main].w = 1 THEN "spawn"
                                  ELSE "final_print"]
    /\ UNCHANGED <<prog, out, memv, heap, rcv, data>>

\* let r = n.read().unwrap();
rw_read_lock(t) ==
    /\ prog = "example_rwlock_readers_writers"
    /\ pc[t] = "read_lock"
    /\ CanRead
    /\ lock' = [lock EXCEPT !.readers = @ \cup {t}]
    /\ pc' = [pc EXCEPT ![t] = "read_print"]
    /\ UNCHANGED <<prog, regs, out, memv, heap, rcv, data>>

\* println!("[reader {i}] value = {}", *r);
rw_read_print(t) ==
    /\ prog = "example_rwlock_readers_writers"
    /\ pc[t] = "read_print"
    /\ regs' = [regs EXCEPT ![t].value = data]
    /\ out' = Append(out, data)
    /\ pc' = [pc EXCEPT ![t] = "read_unlock"]
    /\ UNCHANGED <<prog, memv, heap, rcv, lockv>>

\* the read guard is dropped as the closure returns
rw_read_unlock(t) ==
    /\ prog = "example_rwlock_readers_writers"
    /\ pc[t] = "read_unlock"
    /\ lock' = [lock EXCEPT !.readers = @ \ {t}]
    /\ pc' = [pc EXCEPT ![t] = "done"]
    /\ UNCHANGED <<prog, regs, out, memv, heap, rcv, data>>

\* println!("final value = {}", *num.read().unwrap()): the read guard is a
\* temporary of the statement
rw_final_print ==
    /\ prog = "example_rwlock_readers_writers"
    /\ pc[main] = "final_print"
    /\ CanRead
    /\ out' = Append(out, data)
    /\ pc' = [pc EXCEPT ![main] = "done"]
    /\ UNCHANGED <<prog, regs, memv, heap, rcv, lockv>>

RwLockNext ==
    \/ rw_write_lock
    \/ rw_write_load
    \/ rw_write_store
    \/ rw_write_unlock
    \/ \E t \in Readers : rw_read_lock(t)
    \/ \E t \in Readers : rw_read_print(t)
    \/ \E t \in Readers : rw_read_unlock(t)
    \/ rw_final_print

(***************************************************************************)
(* Any sequence of clone, downgrade, upgrade and drop on the handles of    *)
(* one allocation x, starting with the one strong handle Rc::new returns.  *)
(* At most MaxHandles handles are ever created (they are numbered).        *)
(***************************************************************************)
any_clone ==
    /\ prog = "any_sequence"
    /\ regs[main].next <= MaxHandles
    /\ \E src \in handles :
          /\ src.kind = "strong"
          /\ SetRc(RcClone(RcState, src, regs[main].next, "stack"))
    /\ regs' = [regs EXCEPT ![main].next = @ + 1]
    /\ UNCHANGED <<prog, pc, out, memv, heap, lockv>>

any_downgrade ==
    /\ prog = "any_sequence"
    /\ regs[main].next <= MaxHandles
    /\ \E src \in handles :
          /\ src.kind = "strong"
          /\ SetRc(RcDowngrade(RcState, src, regs[main].next, "stack"))
    /\ regs' = [regs EXCEPT ![main].next = @ + 1]
    /\ UNCHANGED <<prog, pc, out, memv, heap, lockv>>

any_upgrade ==
    /\ prog = "any_sequence"
    /\ \E wk \in handles :
          /\ wk.kind = "weak"
          /\ UpgradeIsSome(RcState, wk) => regs[main].next <= MaxHandles
          /\ SetRc(RcUpgrade(RcState, wk, regs[main].next))
          /\ regs' = [regs EXCEPT
                         ![main].next = IF UpgradeIsSome(RcState, wk)
                                        THEN @ + 1 ELSE @,
                         ![main].last_up =
                             [some |-> UpgradeIsSome(RcState, wk),
                              alive |-> StrongAlive(wk.to),
                              at |-> regs[main].next]]
    /\ UNCHANGED <<prog, pc, out, memv, heap, lockv>>

any_drop ==
    /\ prog = "any_sequence"
    /\ \E h \in handles : SetRc(RcDrop(RcState, h))
    /\ UNCHANGED <<prog, pc, regs, out, memv, heap, lockv>>

\* Arc::try_unwrap on any live strong handle; on Err the handle comes back.
any_try_unwrap ==
    /\ prog = "any_sequence"
    /\ \E h \in handles :
          /\ h.kind = "strong"
          /\ LET st == TryUnwrap(RcState, h, h.id)
             IN  /\ SetRc(st)
                 /\ regs' = [regs EXCEPT ![main].last_try =
                       [ok |-> TryUnwrapIsOk(RcState, h),
                        unique |-> Cardinality({g \in handles :
                                      g.kind = "strong" /\ g.to = h.to}) = 1,
                        same |-> st = RcState,
                        at |-> regs[main].next]]
    /\ UNCHANGED <<prog, pc, out, memv, heap, lockv>>

AnyNext ==
    \/ any_try_unwrap
    \/ any_clone
    \/ any_downgrade
    \/ any_upgrade
    \/ any_drop

(***************************************************************************)
(* example_try_unwrap (arc-doc): try_unwrap of a uniquely owned Arc, then  *)
(* of an Arc that has a sibling a2.  Each match arm is a position of the   *)
(* function; the messages printed go to regs.said, the count printed to    *)
(* out.  The allocations are named after the Strings they hold.            *)
(***************************************************************************)
TryAt(l) == prog = "arc_doc::example_try_unwrap" /\ pc[main] = l

TryGoto(l) == pc' = [pc EXCEPT ![main] = l]

TrySay(m) == regs' = [regs EXCEPT ![main].said = Append(@, m)]

\* let a = Arc::new(String::from("unique"));
try_new_unique ==
    /\ TryAt("new_unique")
    /\ SetRc(RcNew(RcState, "unique", "a", "stack"))
    /\ TryGoto("try_unwrap_1")
    /\ UNCHANGED <<prog, regs, out, memv, heap, lockv>>

\* match Arc::try_unwrap(a) {
try_unwrap_1 ==
    /\ TryAt("try_unwrap_1")
    /\ SetRc(TryUnwrap(RcState, H("a"), "match_1"))
    /\ regs' = [regs EXCEPT ![main].r1 =
                    IF TryUnwrapIsOk(RcState, H("a")) THEN "Ok" ELSE "Err"]
    /\ TryGoto("match_1")
    /\ UNCHANGED <<prog, out, memv, heap, lockv>>

\* Ok(s) => println!("moved out: {s}"),
\* Err(_) => println!("still shared"), and the Arc that came back is dropped
\* at the end of the match
try_match_1 ==
    /\ TryAt("match_1")
    /\ IF regs[main].r1 = "Ok"
       THEN /\ TrySay("moved out: unique")
            /\ UNCHANGED rcv
       ELSE /\ TrySay("still shared")
            /\ SetRc(RcDrop(RcState, H("match_1")))
    /\ TryGoto("new_shared")
    /\ UNCHANGED <<prog, out, memv, heap, lockv>>

\* let a = Arc::new(String::from("shared"));
try_new_shared ==
    /\ TryAt("new_shared")
    /\ SetRc(RcNew(RcState, "shared", "a", "stack"))
    /\ TryGoto("clone_a2")
    /\ UNCHANGED <<prog, regs, out, memv, heap, lockv>>

\* let a2 = Arc::clone(&a);
try_clone_a2 ==
    /\ TryAt("clone_a2")
    /\ SetRc(RcClone(RcState, H("a"), "a2", "stack"))
    /\ TryGoto("try_unwrap_2")
    /\ UNCHANGED <<prog, regs, out, memv, heap, lockv>>

\* match Arc::try_unwrap(a) {
try_unwrap_2 ==
    /\ TryAt("try_unwrap_2")
    /\ SetRc(TryUnwrap(RcState, H("a"), "arc_back"))
    /\ regs' = [regs EXCEPT ![main].r2 =
                    IF TryUnwrapIsOk(RcState, H("a")) THEN "Ok" ELSE "Err"]
    /\ TryGoto("match_2")
    /\ UNCHANGED <<prog, out, memv, heap, lockv>>

\* Ok(_) => println!("unexpected"),
\* Err(arc_back) => { println!("cannot unwrap: strong_count = {}", ..);
try_match_2 ==
    /\ TryAt("match_2")
    /\ IF regs[main].r2 = "Ok"
       THEN /\ TrySay("unexpected")
            /\ out' = out
            /\ TryGoto("end_fn")
       ELSE /\ TrySay("cannot unwrap: strong_count =")
            /\ out' = Append(out, cnt[H("arc_back").to].strong)
            /\ TryGoto("drop_a2")
    /\ UNCHANGED <<prog, memv, heap, rcv, lockv>>

\* drop(a2);
try_drop_a2 ==
    /\ TryAt("drop_a2")
    /\ SetRc(RcDrop(RcState, H("a2")))
    /\ TryGoto("end_fn")
    /\ UNCHANGED <<prog, regs, out, memv, heap, lockv>>

\* } } : what is still in scope is dropped (arc_back, or a2 after an Ok)
try_end_fn ==
    /\ TryAt("end_fn")
    /\ SetRc(RcDrop(RcState, CHOOSE h \in handles : h.to = "shared"))
    /\ TryGoto("done")
    /\ UNCHANGED <<prog, regs, out, memv, heap, lockv>>

TryUnwrapNext ==
    \/ try_new_unique
    \/ try_unwrap_1
    \/ try_match_1
    \/ try_new_shared
    \/ try_clone_a2
    \/ try_unwrap_2
    \/ try_match_2
    \/ try_drop_a2
    \/ try_end_fn

(***************************************************************************)
(* The specification.                                                      *)
(***************************************************************************)
RcProgs == ScriptProgs \cup {"any_sequence"}

Progs ==
    ThreadedProgs \cup RcProgs
        \cup {"ex_box_pin_address_stability", "arc_doc::example_try_unwrap",
              "ex_compare_exchange"}

ThreadsOf(p) ==
    CASE p \in ThreadedProgs -> 0 .. ThreadCount(p)
      [] p = "weak_doc::ex_arc_weak_multithread" -> 0 .. 1
      [] OTHER -> 0 .. 0

InitPc(p) ==
    CASE p = "example_rwlock_readers_writers" ->
            [t \in ThreadsOf(p) |-> IF t = main THEN "write_lock" ELSE "idle"]
      [] p \in ThreadedProgs \ {"example_rwlock_readers_writers"} ->
            [t \in ThreadsOf(p) |-> IF t = main THEN "spawn" ELSE "idle"]
      [] p \in RcProgs ->
            [t \in ThreadsOf(p) |-> IF t = main THEN 1 ELSE 0]
      [] p = "ex_box_pin_address_stability" ->
            [t \in ThreadsOf(p) |-> "box_pin"]
      [] p = "arc_doc::example_try_unwrap" ->
            [t \in ThreadsOf(p) |-> "new_unique"]
      [] p = "ex_compare_exchange" ->
            [t \in ThreadsOf(p) |-> "init_cas"]

NoUpgrade == [some |-> FALSE, alive |-> FALSE, at |-> 0]

NoTry == [ok |-> FALSE, unique |-> FALSE, same |-> TRUE, at |-> 0]

InitRegs(p) ==
    CASE p \in CounterProgs ->
            [t \in ThreadsOf(p) |->
                IF t = main THEN [k |-> 0, j |-> 0] ELSE [i |-> 0, prev |-> 0]]
      [] p = "ex_acquire_release_flag" ->
            [t \in ThreadsOf(p) |->
                IF t = main THEN [k |-> 0, j |-> 0]
                ELSE [ready |-> FALSE, v |-> 0, spun |-> FALSE]]
      [] p = "ex_atomic_ptr_and_fence" ->
            [t \in ThreadsOf(p) |->
                IF t = main THEN [k |-> 0, j |-> 0]
                ELSE [raw |-> null_mut, p |-> null_mut, val |-> << >>,
                      live |-> FALSE]]
      [] p = "example_mutation_with_mutex" ->
            [t \in ThreadsOf(p) |->
                IF t = main THEN [k |-> 0, j |-> 0] ELSE [len |-> 0]]
      [] p = "example_rwlock_readers_writers" ->
            [t \in ThreadsOf(p) |->
                IF t = main THEN [k |-> 0, j |-> 0, w |-> 1, tmp |-> 0]
                ELSE [value |-> 0]]
      [] p = "ex_box_pin_address_stability" ->
            [t \in ThreadsOf(p) |->
                [p |-> NoHandle, p2 |-> NoHandle, slot0 |-> 0, start_addr |-> 0,
                 middle_addr |-> 0, end_addr |-> 0, panicked |-> FALSE]]
      [] p \in RcProgs ->
            [t \in ThreadsOf(p) |->
                [last_up |-> NoUpgrade, said |-> << >>, panicked |-> FALSE,
                 next |-> 2, last_try |-> NoTry]]
      [] p = "arc_doc::example_try_unwrap" ->
            [t \in ThreadsOf(p) |->
                [said |-> << >>, r1 |-> "none", r2 |-> "none"]]
      [] p = "ex_compare_exchange" ->
            [t \in ThreadsOf(p) |->
                [cur |-> 0, retried |-> FALSE, exchanges |-> 0]]

InitCnt(p) ==
    CASE p \in ScriptProgs -> [n \in AllocsOf(p) |-> NoAlloc]
      [] p = "arc_doc::example_try_unwrap" ->
            [n \in {"unique", "shared"} |-> NoAlloc]
      [] p = "any_sequence" -> RcNew([cnt |-> [n \in {"x"} |-> NoAlloc],
                                      handles |-> {}], "x", 1, "stack").cnt
      [] OTHER -> << >>

InitHandles(p) ==
    IF p = "any_sequence" THEN {Handle(1, "strong", "x", "stack")} ELSE {}

\* Mutex::new(vec![]) / RwLock::new(0_u64)
InitLock(p) ==
    IF p = "example_rwlock_readers_writers"
    THEN [writer |-> FALSE, readers |-> {}]
    ELSE [held |-> FALSE, by |-> main]

InitData(p) == IF p = "example_rwlock_readers_writers" THEN 0 ELSE << >>

Init ==
    /\ prog \in Progs
    /\ pc = InitPc(prog)
    /\ regs = InitRegs(prog)
    /\ out = << >>
    /\ hist = InitHist
    /\ view = [t \in ThreadsOf(prog) |-> BotView]
    /\ frel = [t \in ThreadsOf(prog) |-> BotView]
    /\ heap = [a \in Addrs |-> [state |-> "unused", frees |-> 0, by |-> main,
                                 val |-> ""]]
    /\ cnt = InitCnt(prog)
    /\ handles = InitHandles(prog)
    /\ lock = InitLock(prog)
    /\ data = InitData(prog)

Next ==
    \/ thread_spawn
    \/ thread_join
    \/ CounterNext
    \/ FlagNext
    \/ PtrNext
    \/ ScriptNext
    \/ AnyNext
    \/ PinNext
    \/ MutexNext
    \/ RwLockNext
    \/ TryUnwrapNext
    \/ CxNext

Spec == Init /\ [][Next]_vars

(***************************************************************************)
(* Fair scheduling.  Every thread that can take its next step eventually   *)
(* takes it (the OS scheduler; spawn and join are steps of the function's  *)
(* thread).  A store becomes visible to a spinning loader in finite time:  *)
(* the load that leaves the spin loop, once possible, eventually happens.  *)
(* compare_exchange_weak does not fail spuriously for ever: a loop that    *)
(* keeps calling it with the current value eventually has a call succeed   *)
(* (strong fairness: between two calls the loop reloads x).                *)
(***************************************************************************)
SchedulerFairness ==
    /\ WF_vars(thread_spawn)
    /\ WF_vars(thread_join)
    /\ \A t \in Workers :
          /\ WF_vars(counter_fetch_add(t))
          /\ WF_vars(fetch_update_load(t))
          /\ WF_vars(fetch_update_cas(t))
          /\ WF_vars(counter_worker_exit(t))
    /\ WF_vars(counter_load)
    /\ WF_vars(writer_store_VALUE)
    /\ WF_vars(writer_store_READY)
    /\ WF_vars(reader_load_VALUE)
    /\ WF_vars(producer_box_new)
    /\ WF_vars(producer_fence)
    /\ WF_vars(producer_store_PTR)
    /\ WF_vars(consumer_deref)
    /\ WF_vars(consumer_free)
    /\ WF_vars(consumer_store_null)
    /\ WF_vars(cx_init_cas)
    /\ WF_vars(cx_print_id)
    /\ WF_vars(cx_loop_load)
    /\ WF_vars(cx_print_x)

VisibilityFairness ==
    /\ WF_vars(reader_spin /\ pc'[r_thread] # "spin")
    /\ WF_vars(consumer_spin /\ pc'[r_thread] # "spin")

WeakCasFairness == SF_vars(cx_cas_weak(FALSE))

FairSpec == Spec /\ SchedulerFairness /\ VisibilityFairness /\ WeakCasFairness

(***************************************************************************)
(* C1.  In the three counter examples, under every interleaving of the     *)
(* workers, the value the example loads (and prints) after it has joined   *)
(* all of them is threads x iterations: no increment is lost.              *)
(***************************************************************************)
C1_NoLostIncrement ==
    (prog \in CounterProgs /\ pc[main] = "done")
        => out = << NThreads * NIters >>

\* The AtomicCell example has finished with the full count although some
\* worker's last view of `sum` was not the newest store (others incremented
\* after it).
C1_Witness ==
    /\ prog = "ex_atomic_cell_threads"
    /\ pc[main] = "done"
    /\ out = << NThreads * NIters >>
    /\ \E t \in Workers : view[t]["sum"] < Len(hist["sum"])

(***************************************************************************)
(* C2.  In ex_acquire_release_flag, in every interleaving, once the        *)
(* reader's READY.load has returned true, the VALUE.load that follows      *)
(* returns 42, never the initial 0.                                        *)
(***************************************************************************)
C2_ReaderSees42 ==
    (prog = "ex_acquire_release_flag" /\ pc[r_thread] = "done")
        => (regs[r_thread].ready /\ regs[r_thread].v = 42 /\ out = << 42 >>)

\* The reader has spun on READY = false at least once, then seen READY = true
\* and read 42.
C2_Witness ==
    /\ prog = "ex_acquire_release_flag"
    /\ pc[r_thread] = "done"
    /\ regs[r_thread].spun
    /\ regs[r_thread].ready
    /\ regs[r_thread].v = 42

(***************************************************************************)
(* C3.  In ex_atomic_ptr_and_fence, in every interleaving: the consumer    *)
(* dereferences PTR only after it has loaded a non-null value; what it     *)
(* reads is the initialised Payload {a: 1, b: 2} of a live block; the      *)
(* block is freed exactly once, by the consumer; and after both threads    *)
(* are joined PTR is null again.                                           *)
(***************************************************************************)
C3_PtrHandoff ==
    prog = "ex_atomic_ptr_and_fence" =>
        /\ pc[r_thread] \in {"deref", "free", "store_null", "done"}
              => /\ regs[r_thread].p # null_mut
                 /\ regs[r_thread].p = regs[t_thread].raw
        /\ pc[r_thread] \in {"free", "store_null", "done"}
              => /\ regs[r_thread].live
                 /\ regs[r_thread].val = << 1, 2 >>
        /\ \A a \in Addrs :
              /\ heap[a].frees <= 1
              /\ heap[a].state = "freed" => heap[a].by = r_thread
        /\ pc[r_thread] \in {"store_null", "done"}
              => Cardinality({a \in Addrs : heap[a].state = "freed"}) = 1
        /\ pc[r_thread] \in {"spin", "deref", "free"}
              => \A a \in Addrs : heap[a].state # "freed"
        /\ pc[main] = "done"
              => /\ Latest("PTR").val = null_mut
                 /\ \A i \in Readable(main, "PTR") : hist["PTR"][i].val = null_mut

\* The example has finished: the consumer spun on null, then read and freed
\* the Payload, and PTR is null again.
C3_Witness ==
    /\ prog = "ex_atomic_ptr_and_fence"
    /\ pc[main] = "done"
    /\ regs[r_thread].val = << 1, 2 >>
    /\ \E a \in Addrs : heap[a].state = "freed" /\ heap[a].by = r_thread
    /\ Len(hist["PTR"]) = 3

(***************************************************************************)
(* C4.  For any sequence of clone, downgrade, upgrade and drop on the      *)
(* handles of an allocation, Weak::upgrade returns Some exactly when a     *)
(* strong handle is alive at that moment: every upgrade made returned Some *)
(* iff one was alive, at every moment an upgrade of any live Weak would,   *)
(* and the assertion of ex_rc_weak_basics does not fail.                   *)
(***************************************************************************)
C4_UpgradeIffStrongAlive ==
    prog \in RcProgs =>
        /\ \A t \in DOMAIN regs :
              /\ regs[t].last_up.some = regs[t].last_up.alive
              /\ ~regs[t].panicked
        /\ \A wk \in handles :
              (wk.kind = "weak" /\ wk.to # "none")
                  => (UpgradeIsSome(RcState, wk) <=> StrongAlive(wk.to))

\* The any-sequence client has upgraded a Weak after the last strong handle
\* was dropped (and got None), having earlier held more than one strong handle.
C4_Witness ==
    /\ prog = "any_sequence"
    /\ regs[main].last_up.at > 2
    /\ ~regs[main].last_up.some
    /\ ~StrongAlive("x")
    /\ cnt["x"].weak > 0

(***************************************************************************)
(* C5.  After any sequence of clone, downgrade and drop, strong_count is   *)
(* the number of live strong handles and weak_count the number of live     *)
(* Weak handles (so making or dropping a Weak leaves strong_count alone);  *)
(* example_basic prints 3, 2, 1, the leaf of example_tree_like_sharing has *)
(* strong count 3, ex_rc_weak_basics prints strong 1 and weak 1.           *)
(***************************************************************************)
IsPrefix(s, t) == Len(s) <= Len(t) /\ \A i \in 1 .. Len(s) : s[i] = t[i]

C5_CountsAreLiveHandles ==
    prog \in RcProgs =>
        /\ \A n \in DOMAIN cnt :
              /\ cnt[n].strong =
                    Cardinality({h \in handles : h.kind = "strong" /\ h.to = n})
              /\ cnt[n].weak =
                    Cardinality({h \in handles : h.kind = "weak" /\ h.to = n})
        /\ prog = "rc_doc::example_basic" =>
              /\ IsPrefix(out, << 3, 2, 1 >>)
              /\ Returned(main) => out = << 3, 2, 1 >>
        /\ prog = "rc_doc::example_tree_like_sharing" =>
              /\ IsPrefix(out, << 3 >>)
              /\ Returned(main) => out = << 3 >>
        /\ prog = "weak_doc::ex_rc_weak_basics" =>
              /\ IsPrefix(out, << 1, 1 >>)
              /\ Returned(main) => out = << 1, 1 >>

\* The any-sequence client holds two strong handles and two Weaks at once.
C5_Witness ==
    /\ prog = "any_sequence"
    /\ cnt["x"].strong = 2
    /\ cnt["x"].weak = 2
    /\ regs[main].next > MaxHandles

(***************************************************************************)
(* C7.  In ex_arc_weak_multithread the spawned thread looks at the parent  *)
(* after root has been dropped: in every execution its upgrade returns     *)
(* None, it prints "[thread] root dropped; weak back-edge is None", and it *)
(* never holds a strong handle to root.                                    *)
(***************************************************************************)
C7_ThreadSeesRootDropped ==
    prog = "weak_doc::ex_arc_weak_multithread" =>
        /\ ~regs[1].last_up.some
        /\ ~Live("tmp")
        /\ Returned(1) =>
              regs[1].said = << "[thread] root dropped; weak back-edge is None" >>

(***************************************************************************)
(* C8.  In ex_leak_then_fix, with the strong back-edge the counts printed  *)
(* are A 2/0 and B 2/0, and once a and b are released each node still has  *)
(* strong count 1 and neither value is ever dropped; with the weak         *)
(* back-edge the counts printed are P 1/1 and C 2/0, and once p and c are  *)
(* released both strong counts are 0 and both values are dropped.          *)
(***************************************************************************)
C8_LeakThenFix ==
    prog = "weak_doc::ex_leak_then_fix" =>
        /\ IsPrefix(out, << 2, 0, 2, 0, 1, 1, 2, 0 >>)
        /\ cnt["a"].value # "dropped"
        /\ cnt["b"].value # "dropped"
        /\ Returned(main) =>
              /\ out = << 2, 0, 2, 0, 1, 1, 2, 0 >>
              /\ ~Live("a") /\ ~Live("b") /\ ~Live("p") /\ ~Live("c")
              /\ cnt["a"].strong = 1 /\ cnt["a"].value = "live"
              /\ cnt["b"].strong = 1 /\ cnt["b"].value = "live"
              /\ cnt["p"].strong = 0 /\ cnt["p"].value = "dropped"
              /\ cnt["c"].strong = 0 /\ cnt["c"].value = "dropped"

\* The function has returned: a and b leak, p and c are gone.
C8_Witness ==
    /\ prog = "weak_doc::ex_leak_then_fix"
    /\ Returned(main)
    /\ cnt["a"].value = "live" /\ ~cnt["a"].freed
    /\ cnt["b"].value = "live" /\ ~cnt["b"].freed
    /\ cnt["p"].freed /\ cnt["c"].freed

(***************************************************************************)
(* C9.  In the parent/child graph examples (strong edge parent -> child,   *)
(* weak edge child -> parent) child.parent.upgrade() yields the parent at  *)
(* every point before the only strong handle to the parent is dropped and  *)
(* None at every point after it: the weak back-edge does not keep the      *)
(* parent alive.  At drop(root) / drop(parent) the parent's value is       *)
(* dropped, and the child stays alive, its strong count going from 2 to 1. *)
(***************************************************************************)
ParentName(p) == IF p = "weak_doc::ex_rc_cycle_vs_weak" THEN "parent" ELSE "root"

\* The statement that drops the function's handle to the parent.
DropParentAt(p) ==
    CHOOSE i \in 1 .. Len(Script(p, main)) :
        Script(p, main)[i] = I_drop(ParentName(p))

Linked == pc[main] > Len(GraphSetup("parent", "child"))

ExplicitDrop(p) == p # "rc_doc::example_weak_to_avoid_cycles"

C6_AddressStable ==
    prog = "ex_box_pin_address_stability" =>
        /\ ~regs[main].panicked
        /\ pc[main] \in {"move_p2", "end_addr", "assert", "push_str", "drop", "done"}
              => regs[main].middle_addr = regs[main].start_addr
        /\ pc[main] \in {"assert", "push_str", "drop", "done"}
              => regs[main].end_addr = regs[main].start_addr
        /\ pc[main] \notin {"box_pin", "start_addr", "done"} =>
              /\ heap[regs[main].start_addr].state = "live"
              /\ \A a \in Addrs : heap[a].state # "unused" => a = regs[main].start_addr
              /\ \A hd \in {regs[main].p, regs[main].p2} :
                    hd # NoHandle => addr_of(hd) = regs[main].start_addr

\* Both assertions have passed although the handle is no longer in the slot
\* it was created in.
C6_Witness ==
    /\ prog = "ex_box_pin_address_stability"
    /\ pc[main] = "push_str"
    /\ regs[main].p2.slot # regs[main].slot0
    /\ regs[main].end_addr = regs[main].start_addr

(***************************************************************************)
(* C10.  In example_mutation_with_mutex, for every interleaving of the     *)
(* four threads, the vector printed after all of them are joined has       *)
(* length 4 and holds each of 1, 2, 3, 4 exactly once; at most one thread  *)
(* holds the mutex at any time, and no push is lost or duplicated.         *)
(***************************************************************************)
InCritical(t) == pc[t] \in {"push", "push_write", "unlock"}

Elems(s) == {s[i] : i \in 1 .. Len(s)}

C10_MutexPermutation ==
    prog = "example_mutation_with_mutex" =>
        /\ \A t, u \in Pushers : (InCritical(t) /\ InCritical(u)) => t = u
        /\ \A t \in Pushers : InCritical(t) => (lock.held /\ lock.by = t)
        /\ Cardinality(Elems(data)) = Len(data)
        /\ Elems(data) = {t \in Pushers : pc[t] \in {"unlock", "done"}}
        /\ pc[main] = "done" =>
              /\ out = << data >>
              /\ Len(data) = 4
              /\ Elems(data) = {1, 2, 3, 4}

\* The vector printed is not in spawn order: thread 4 pushed first.
C10_Witness ==
    /\ prog = "example_mutation_with_mutex"
    /\ pc[main] = "done"
    /\ Len(data) = 4
    /\ data[1] = 4
    /\ out = << data >>

(***************************************************************************)
(* C11.  In example_rwlock_readers_writers every reader reads 10 (never 0  *)
(* and never 11): the readers start after the first write guard is         *)
(* released and are joined before the second write; no write guard is held *)
(* while a read guard is held; the final value printed is 11.              *)
(***************************************************************************)
C11_ReadersSee10 ==
    prog = "example_rwlock_readers_writers" =>
        /\ lock.writer => lock.readers = {}
        /\ \A t \in Readers :
              /\ pc[t] \in {"read_unlock", "done"} => regs[t].value = 10
              /\ pc[t] \in {"read_lock", "read_print", "read_unlock"}
                    => (~lock.writer /\ data = 10)
              /\ regs[main].w = 1 => pc[t] = "idle"
              /\ t \in lock.readers <=> pc[t] \in {"read_print", "read_unlock"}
        /\ (regs[main].w >= 2 /\ pc[main] \notin {"spawn", "join"}) =>
              \A t \in Readers : pc[t] = "done"
        /\ IsPrefix(out, << 10, 10, 10, 11 >>)
        /\ pc[main] = "done" => (out = << 10, 10, 10, 11 >> /\ data = 11)

\* Two readers hold read guards at once, after a third has printed 10.
C11_Witness ==
    /\ prog = "example_rwlock_readers_writers"
    /\ Cardinality(lock.readers) = 2
    /\ out = << 10 >>
    /\ \E t \in Readers : pc[t] = "done" /\ regs[t].value = 10

(***************************************************************************)
(* C12.  Arc::try_unwrap(arc) returns Ok with the value exactly when arc   *)
(* is the only strong handle, and otherwise Err with the same Arc, the     *)
(* value and the counts unchanged.  In example_try_unwrap the first call   *)
(* takes the Ok arm and the second, made while a2 is alive, takes the Err  *)
(* arm and prints strong_count = 2.                                        *)
(***************************************************************************)
StrongHandles(n) == {h \in handles : h.kind = "strong" /\ h.to = n}

C12_TryUnwrapWhenUnique ==
    /\ prog = "any_sequence" =>
          /\ regs[main].last_try.ok <=> regs[main].last_try.unique
          /\ ~regs[main].last_try.ok => regs[main].last_try.same
          /\ \A h \in handles : h.kind = "strong" =>
                (TryUnwrapIsOk(RcState, h)
                    <=> Cardinality(StrongHandles(h.to)) = 1)
          /\ cnt["x"].value = "moved" => cnt["x"].strong = 0
    /\ prog = "arc_doc::example_try_unwrap" =>
          /\ \A n \in DOMAIN cnt :
                cnt[n].strong = Cardinality(StrongHandles(n))
          /\ regs[main].r1 \in {"none", "Ok"}
          /\ regs[main].r2 \in {"none", "Err"}
          /\ regs[main].r1 = "Ok" =>
                (cnt["unique"].value = "moved" /\ cnt["unique"].freed)
          /\ pc[main] \in {"match_2", "drop_a2"} =>
                /\ Live("arc_back") /\ Live("a2")
                /\ cnt["shared"].strong = 2
                /\ cnt["shared"].value = "live"
          /\ IsPrefix(regs[main].said,
                      << "moved out: unique", "cannot unwrap: strong_count =" >>)
          /\ IsPrefix(out, << 2 >>)
          /\ pc[main] = "done" =>
                /\ out = << 2 >>
                /\ Len(regs[main].said) = 2
                /\ cnt["shared"].value = "dropped"

\* The second call has returned Err after the first returned Ok, and the
\* count has been printed with a2 still alive.
C12_Witness ==
    /\ prog = "arc_doc::example_try_unwrap"
    /\ pc[main] = "drop_a2"
    /\ regs[main].r1 = "Ok"
    /\ regs[main].r2 = "Err"
    /\ out = << 2 >>
    /\ Live("a2")

(***************************************************************************)
(* C13.  Under fair scheduling every example of atomic-docs that spawns    *)
(* threads or loops runs to its end and has printed: once the writer has   *)
(* stored READY the reader leaves its spin loop,                           *)
(* once the producer has published PTR the consumer leaves its loop, and   *)
(* the compare_exchange_weak loop of ex_compare_exchange ends after        *)
(* exactly one successful exchange, with x = 12: a spurious failure only   *)
(* causes a retry and x is never advanced twice.                           *)
(***************************************************************************)
AtomicDocsProgs ==
    {"ex_relaxed_counter", "ex_acquire_release_flag", "ex_compare_exchange",
     "ex_atomic_ptr_and_fence", "ex_atomic_cell_threads"}

Exited == \A t \in DOMAIN pc : pc[t] = "done"

OneExchange ==
    prog = "ex_compare_exchange" =>
        /\ regs[main].exchanges <= 1
        /\ Len(hist["x"]) = 1 + regs[main].exchanges
        /\ Latest("x").val = 10 + 2 * regs[main].exchanges
        /\ Len(hist["id"]) <= 2
        /\ IsPrefix(out, << my_id, 12 >>)
        /\ pc[main] = "done" =>
              /\ regs[main].exchanges = 1
              /\ Latest("x").val = 12
              /\ out = << my_id, 12 >>

C13_LoopsTerminate ==
    /\ []OneExchange
    /\ (prog = "ex_acquire_release_flag" /\ Len(hist["READY"]) > 1)
          ~> (prog = "ex_acquire_release_flag"
                 /\ pc[r_thread] \in {"load_value", "done"})
    /\ (prog = "ex_atomic_ptr_and_fence" /\ Len(hist["PTR"]) > 1)
          ~> (prog = "ex_atomic_ptr_and_fence"
                 /\ pc[r_thread] \notin {"idle", "spin"})
    /\ <>(prog \in AtomicDocsProgs => (Exited /\ Len(out) >= 1))

\* ex_compare_exchange has ended with x = 12 after a failed exchange.
C13_Witness ==
    /\ prog = "ex_compare_exchange"
    /\ pc[main] = "done"
    /\ regs[main].retried
    /\ regs[main].exchanges = 1
    /\ out = << my_id, 12 >>

====
